---- MODULE Spec2Model ----
(***************************************************************************)
(* Crafting-Tree-Viewer: the DatabaseManager of src/databasemanager.py     *)
(* (items / recipes / edges collections behind the ArangoDB driver) and    *)
(* the Recipe objects of src/wikiScraper.py.                               *)
(*                                                                         *)
(* Python values are modelled with their type: an Item object is not a     *)
(* string, a Recipe object is not the dict of its attributes, and a        *)
(* document that reaches a collection has been through the driver's JSON   *)
(* encoding, which accepts strings, numbers, lists and dicts only.         *)
(***************************************************************************)
EXTENDS Integers, Sequences, FiniteSets, TLC

\* ------------------------------------------------------------------ bounds

\* Recipes carried by one Item object.
MaxRecipes == 2
\* Length of a list handed to add_items.
MaxBatch == 2
\* data-totalrows of a recipes table.
MaxRows == 2
\* Ingredient links in the ingredients cell of a recipes table.
MaxLinks == 2
\* Cap on len(ingredients) of the Recipe object that is followed.
MaxIngredients == 3
\* Cap on the constructor calls nested in one another.
MaxDepth == 4
\* Rows of the crafting stations table.
MaxCells == 2
\* The links of a cell that line 407 reads: links[0] to links[3].
CellLinks == 4

\* Input alphabets.  ItemObjs: the Item objects alive in the calling program.
ItemObjs == {1, 2}
Names == {"Wood Sword", "Wood"}
Sources == {"Vanilla", "Calamity"}
StationList == <<"Work_Bench", "", "Furnace", "Altars">>
IngredientList == <<"Wood", "Stone Block", "Iron Bar", "Gel">>

\* ------------------------------------------------------------ Python values

\* A reference to the Item object o of the heap.
PyItem(o) == [type |-> "Item", id |-> o, s |-> ""]
\* An Item object built on the fly for an ingredient (not one of ItemObjs).
PyIngredient(name) == [type |-> "Item", id |-> 0, s |-> name]
\* A str.
PyStr(str) == [type |-> "str", id |-> 0, s |-> str]

Root(source) ==
    IF source = "Vanilla" THEN "https://terraria.wiki.gg"
    ELSE "https://calamitymod.wiki.gg"

\* The attributes Item.__init__ sets, for an item of the given wiki.  The
\* vanilla drop-table reader never appends to obtainedFrom, the calamity one
\* appends one string per dropping entity.
ItemObject(name, source, rs) ==
    [name |-> name,
     wikiLink |-> Root(source) \o "/wiki/" \o name,
     imageLink |-> Root(source) \o "/images/" \o name \o ".png",
     recipes |-> rs,
     obtainedFrom |-> IF source = "Vanilla" THEN <<>> ELSE <<"Skeleton 1 100%">>,
     source |-> source]

\* The k-th recipe of the item object o.  shape "Item": item and ingredients
\* are Item objects, as the Recipe docstring states.  shape "str": item is the
\* page URL that retrieve_ingredients hands to soupify, ingredients are names.
RecipeObject(o, link, shape, k) ==
    [kind |-> "Recipe",
     item |-> IF shape = "Item" THEN PyItem(o) ELSE PyStr(link),
     crafting_station |-> StationList[k],
     ingredients |-> [j \in 1..k |->
                        IF shape = "Item" THEN PyIngredient(IngredientList[j])
                        ELSE PyStr(IngredientList[j])],
     ingredientQuantities |-> [j \in 1..k |-> j + 1],
     url |-> "https://terraria.wiki.gg"]

\* The recipes lists an Item object starts with: none, the item's recipes
\* holding Item objects, or a prefix of them holding plain values.
RecipeLists(o, link) ==
    {<<>>, [k \in 1..MaxRecipes |-> RecipeObject(o, link, "Item", k)]} \cup
    {[k \in 1..n |-> RecipeObject(o, link, "str", k)] : n \in 1..MaxRecipes}

ItemValues(o) ==
    {ItemObject(name, source, rs) :
        name \in Names, source \in Sources,
        rs \in UNION {RecipeLists(o, Root(src) \o "/wiki/" \o nm) :
                        nm \in Names, src \in Sources}}

WellFormedItem(o, it) ==
    \A i \in DOMAIN it.recipes :
        it.recipes[i].item \in {PyItem(o), PyStr(it.wikiLink)}

Heaps ==
    {h \in [ItemObjs -> UNION {ItemValues(o) : o \in ItemObjs}] :
        \A o \in ItemObjs : WellFormedItem(o, h[o])}

\* --------------------------------------------------------------------- state

VARIABLES
    items,      \* the 'items' collection, in key order
    recipes,    \* the 'recipes' collection
    edges,      \* the 'edges' collection
    heap,       \* the caller's Item objects: heap[o] is o.__dict__
    rec,        \* one Recipe / CalamityRecipe object that is followed
    last,       \* the call that ended last: op, arg, outcome, result
    writers,    \* per concurrent writer: where its add_item call stands
    frames,     \* the call stack of an Item / Recipe construction
    expansions  \* per item name: Item.__init__ runs in that construction

vars == <<items, recipes, edges, heap, rec, last, writers, frames, expansions>>

\* What the sequential calls of the manager and the followed Recipe object
\* leave alone.
aside == <<writers, frames, expansions>>

\* ---------------------------------------------------------- JSON encoding

\* json.dumps accepts str, numbers, lists and dicts; an Item object inside a
\* recipe dict makes it raise TypeError.
Serializable(it) ==
    \A i \in DOMAIN it.recipes :
        /\ it.recipes[i].item.type = "str"
        /\ \A j \in DOMAIN it.recipes[i].ingredients :
              it.recipes[i].ingredients[j].type = "str"

JsonRecipe(r) ==
    [item |-> r.item.s,
     crafting_station |-> r.crafting_station,
     ingredients |-> [j \in DOMAIN r.ingredients |-> r.ingredients[j].s],
     ingredientQuantities |-> r.ingredientQuantities,
     url |-> r.url]

\* The stored document: the encoded attributes plus the generated key.
ToDoc(it, key) ==
    [key |-> key,
     name |-> it.name,
     wikiLink |-> it.wikiLink,
     imageLink |-> it.imageLink,
     recipes |-> [i \in DOMAIN it.recipes |-> JsonRecipe(it.recipes[i])],
     obtainedFrom |-> it.obtainedFrom,
     source |-> it.source]

\* The _id the server gives a document of the items collection.
DocId(doc) == "items/" \o ToString(doc.key)

\* ------------------------------------------------------------- collections

\* The unique hash index on items.name.
NameIndexed(its, name) == \E k \in DOMAIN its : its[k].name = name

\* Insert on a collection whose name index is not unique.
InsertNoUniqueIndex(its, it) ==
    IF ~Serializable(it) THEN [items |-> its, outcome |-> "TypeError"]
    ELSE [items |-> Append(its, ToDoc(it, Len(its) + 1)), outcome |-> "ok"]

\* items.insert(item_dict): encode, check the unique index, store under the
\* next autoincrement key.
Insert(its, it) ==
    IF ~Serializable(it) THEN [items |-> its, outcome |-> "TypeError"]
    ELSE IF NameIndexed(its, it.name)
         THEN [items |-> its, outcome |-> "DocumentInsertError"]
    ELSE [items |-> Append(its, ToDoc(it, Len(its) + 1)), outcome |-> "ok"]

\* ---------------------------------------------------------------- add_item

\* add_item(o) run on the collection its and the heap hp.
AddItemCall(its, hp, o) ==
    LET rs == hp[o].recipes
        \* line 99: recipe.__dict__ of every element of item.recipes
        dicts == [i \in DOMAIN rs |-> [rs[i] EXCEPT !.kind = "dict"]]
        hp2 == [hp EXCEPT ![o].recipes = dicts]
        \* line 101: aql.execute returns a Cursor, which is never None
        ins == Insert(its, hp2[o])
    IN  IF \E i \in DOMAIN rs : rs[i].kind = "dict"
        THEN [items |-> its, heap |-> hp, outcome |-> "AttributeError"]
        ELSE [items |-> ins.items, heap |-> hp2, outcome |-> ins.outcome]

AddItem(o) ==
    LET r == AddItemCall(items, heap, o)
    IN  /\ items' = r.items
        /\ heap' = r.heap
        /\ last' = [op |-> "add_item", arg |-> <<o>>,
                    outcome |-> r.outcome, result |-> <<>>]
        /\ UNCHANGED <<recipes, edges, rec, aside>>

\* --------------------------------------------------------------- add_items

RECURSIVE AddItemsCall(_, _, _)
\* add_items(batch): add_item on each element in turn; an exception leaves
\* the loop and the rest of the batch.
AddItemsCall(its, hp, batch) ==
    IF batch = <<>> THEN [items |-> its, heap |-> hp, outcome |-> "ok"]
    ELSE LET r == AddItemCall(its, hp, Head(batch))
         IN  IF r.outcome # "ok" THEN r
             ELSE AddItemsCall(r.items, r.heap, Tail(batch))

Batches == UNION {[1..n -> ItemObjs] : n \in 0..MaxBatch}

AddItems(batch) ==
    LET r == AddItemsCall(items, heap, batch)
    IN  /\ items' = r.items
        /\ heap' = r.heap
        /\ last' = [op |-> "add_items", arg |-> batch,
                    outcome |-> r.outcome, result |-> <<>>]
        /\ UNCHANGED <<recipes, edges, rec, aside>>

\* -------------------------------------------------------------- add_recipe

\* What the driver does with the two calls the code makes outside the
\* driver's documented use: the truth value of a Cursor (line 130) and
\* has()/get() on a body without _key or _id (lines 155-167).  "strict": the
\* driver raises (a Cursor has a length only when the query asked for the
\* count; a document is addressed by its handle).  "lenient": the Cursor is
\* true when it holds a result, has()/get() match the body's fields.
DriverModes == {"strict", "lenient"}

\* add_recipe(r) run on the collection its and the heap hp.
AddRecipeCall(its, hp, r, drv) ==
    IF r.kind # "Recipe"
    THEN \* line 126: a dict or a list has no __dict__
         [items |-> its, heap |-> hp, outcome |-> "AttributeError"]
    ELSE IF r.item.type # "Item"
    THEN \* line 129: a str has no attribute name
         [items |-> its, heap |-> hp, outcome |-> "AttributeError"]
    ELSE IF drv = "strict"
    THEN \* line 130: truth value of a Cursor without a count
         [items |-> its, heap |-> hp, outcome |-> "CursorCountError"]
    ELSE IF NameIndexed(its, hp[r.item.id].name)
    THEN \* line 131: a Cursor cannot be indexed
         [items |-> its, heap |-> hp, outcome |-> "TypeError"]
    ELSE \* line 133
         AddItemCall(its, hp, r.item.id)

RECURSIVE AddRecipesCall(_, _, _, _)
\* add_recipes(rs): add_recipe on each element in turn.
AddRecipesCall(its, hp, rs, drv) ==
    IF rs = <<>> THEN [items |-> its, heap |-> hp, outcome |-> "ok"]
    ELSE LET r == AddRecipeCall(its, hp, Head(rs), drv)
         IN  IF r.outcome # "ok" THEN r
             ELSE AddRecipesCall(r.items, r.heap, Tail(rs), drv)

\* The Recipe values a caller can pass: a Recipe built for an Item object
\* (Recipe(item, station, ingredients, quantities, initial=False)), or an
\* element of an Item object's recipes list as it is now.
RecipeArgs ==
    {RecipeObject(o, heap[o].wikiLink, "Item", 1) : o \in ItemObjs}
    \cup UNION {{heap[o].recipes[i] : i \in DOMAIN heap[o].recipes} :
                    o \in ItemObjs}

AddRecipe(r, drv) ==
    LET c == AddRecipeCall(items, heap, r, drv)
    IN  /\ items' = c.items
        /\ heap' = c.heap
        /\ last' = [op |-> "add_recipe", arg |-> <<r>>,
                    outcome |-> c.outcome, result |-> <<>>]
        /\ UNCHANGED <<recipes, edges, rec, aside>>

\* add_recipes(item.recipes), as main calls it.
AddRecipes(o, drv) ==
    LET c == AddRecipesCall(items, heap, heap[o].recipes, drv)
    IN  /\ items' = c.items
        /\ heap' = c.heap
        /\ last' = [op |-> "add_recipes", arg |-> <<o>>,
                    outcome |-> c.outcome, result |-> <<>>]
        /\ UNCHANGED <<recipes, edges, rec, aside>>

\* ---------------------------------------------------------------- add_edge

\* The handles line 155 builds for an edge's endpoints.
ItemHandle(name) == "items/" \o name
RecipeHandle(name) == "recipes/" \o name

\* main hands add_edge the whole recipes list in place of a Recipe.
PyList == [kind |-> "list"]

\* The unique hash index on edges (_from, _to), read by edges.has.
EdgeIndexed(eds, from, to) ==
    \E k \in DOMAIN eds : eds[k].from = from /\ eds[k].to = to

\* recipes.has({'item': ..., 'crafting_station': ...})
RecipeIndexed(rcs, item, station) ==
    \E k \in DOMAIN rcs :
        rcs[k].item = item /\ rcs[k].crafting_station = station

\* add_edge(o, r) run on the three collections and the heap hp.  No branch
\* writes to edges or to recipes.
AddEdgeCall(its, rcs, eds, hp, o, r, drv) ==
    IF r.kind # "Recipe"
    THEN \* line 155: a list or a dict has no attribute item
         [items |-> its, heap |-> hp, outcome |-> "AttributeError"]
    ELSE IF r.item.type # "Item"
    THEN \* line 155: a str has no attribute name
         [items |-> its, heap |-> hp, outcome |-> "AttributeError"]
    ELSE IF drv = "strict"
    THEN \* line 155: has() on a body without _key or _id
         [items |-> its, heap |-> hp, outcome |-> "DocumentParseError"]
    ELSE IF EdgeIndexed(eds, ItemHandle(hp[o].name),
                        RecipeHandle(hp[r.item.id].name))
    THEN [items |-> its, heap |-> hp, outcome |-> "ok"]
    ELSE IF NameIndexed(its, hp[o].name)
    THEN \* lines 160-170: item is now the stored document
         LET doc == CHOOSE d \in {its[k] : k \in DOMAIN its} :
                        d.name = hp[o].name
         IN  IF RecipeIndexed(rcs, DocId(doc), r.crafting_station)
             THEN [items |-> its, heap |-> hp, outcome |-> "ok"]
             ELSE AddRecipeCall(its, hp, r, drv)
    ELSE \* line 163, then line 165: item is still the Item object, which
         \* cannot be indexed with '_id'
         LET a == AddItemCall(its, hp, o)
         IN  IF a.outcome # "ok" THEN a
             ELSE [a EXCEPT !.outcome = "TypeError"]

\* add_edge writing the edge as soon as line 155 finds none.
AddEdgeWritesEdge(o, r, drv) ==
    LET c == AddEdgeCall(items, recipes, edges, heap, o, r, drv)
        written == r.kind = "Recipe" /\ r.item.type = "Item"
    IN  /\ items' = c.items
        /\ heap' = c.heap
        /\ last' = [op |-> "add_edge", arg |-> <<o, r>>,
                    outcome |-> c.outcome, result |-> <<>>]
        /\ edges' = IF written
                    THEN Append(edges,
                                [from |-> ItemHandle(heap[o].name),
                                 to |-> RecipeHandle(heap[r.item.id].name),
                                 quantity |-> 1])
                    ELSE edges
        /\ UNCHANGED <<recipes, rec, aside>>

AddEdge(o, r, drv) ==
    LET c == AddEdgeCall(items, recipes, edges, heap, o, r, drv)
    IN  /\ items' = c.items
        /\ heap' = c.heap
        /\ last' = [op |-> "add_edge", arg |-> <<o, r>>,
                    outcome |-> c.outcome, result |-> <<>>]
        /\ UNCHANGED <<recipes, edges, rec, aside>>

\* ----------------------------------------------------------------- queries

QueryNames == Names \cup {"Work Bench"}

\* FOR item IN items FILTER item.name == @name
Matching(its, name) == SelectSeq(its, LAMBDA d : d.name = name)

RECURSIVE RecipesOf(_)
\* FOR recipe IN item.recipes RETURN recipe, over the matching documents
RecipesOf(docs) ==
    IF docs = <<>> THEN <<>>
    ELSE Head(docs).recipes \o RecipesOf(Tail(docs))

\* get_item(name).  fetched: whether the pages Item.__init__ requests arrive.
GetItemCall(its, name, fetched) ==
    LET batch == Matching(its, name)
    IN  IF batch = <<>>
        THEN \* line 183: cursor.batch()[0] on an empty batch
             [outcome |-> "IndexError", result |-> <<>>]
        ELSE IF ~fetched
        THEN [outcome |-> "RequestException", result |-> <<>>]
        ELSE [outcome |-> "ok",
              result |-> <<[type |-> "Item",
                            name |-> batch[1].name,
                            wikiLink |-> batch[1].wikiLink,
                            imageLink |-> batch[1].imageLink]>>]

\* get_ingredients(name): one row per recipe, the row is recipe.ingredients.
GetIngredientsCall(its, name) ==
    LET rs == RecipesOf(Matching(its, name))
    IN  [outcome |-> "ok",
         result |-> [i \in DOMAIN rs |-> rs[i].ingredients]]

\* get_recipes with the LIMIT 1 of get_item's query.
GetRecipesCallLimit1(its, name) ==
    LET rs == RecipesOf(Matching(its, name))
    IN  [outcome |-> "ok",
         result |-> IF rs = <<>> THEN <<>> ELSE <<rs[1]>>]

\* get_recipes(name): one row per recipe.
GetRecipesCall(its, name) ==
    [outcome |-> "ok", result |-> RecipesOf(Matching(its, name))]

GetItem(name, fetched) ==
    LET c == GetItemCall(items, name, fetched)
    IN  /\ last' = [op |-> "get_item", arg |-> <<name>>,
                    outcome |-> c.outcome, result |-> c.result]
        /\ UNCHANGED <<items, recipes, edges, heap, rec, aside>>

GetIngredients(name) ==
    LET c == GetIngredientsCall(items, name)
    IN  /\ last' = [op |-> "get_ingredients", arg |-> <<name>>,
                    outcome |-> c.outcome, result |-> c.result]
        /\ UNCHANGED <<items, recipes, edges, heap, rec, aside>>

GetRecipes(name) ==
    LET c == GetRecipesCall(items, name)
    IN  /\ last' = [op |-> "get_recipes", arg |-> <<name>>,
                    outcome |-> c.outcome, result |-> c.result]
        /\ UNCHANGED <<items, recipes, edges, heap, rec, aside>>

\* ------------------------------------------------- Recipe, CalamityRecipe

\* No Recipe object has been built yet.
NoRecipe ==
    [cls |-> "none", item |-> PyStr(""), crafting_station |-> "",
     ingredients |-> <<>>, ingredientQuantities |-> <<>>, url |-> ""]

\* What soupify(url) gets back.  fetch "error": the request raises or the
\* status is not 200 (soupify returns None).  table: the page has the table
\* the method looks for.  totalrows: its data-totalrows.  links: the titles of
\* the links of its second cell.
Pages ==
    {[fetch |-> "error", table |-> FALSE, totalrows |-> 0, links |-> <<>>],
     [fetch |-> "ok", table |-> FALSE, totalrows |-> 0, links |-> <<>>]}
    \cup {[fetch |-> "ok", table |-> TRUE, totalrows |-> n, links |-> <<>>] :
            n \in (0..MaxRows) \ {1}}
    \cup {[fetch |-> "ok", table |-> TRUE, totalrows |-> 1, links |-> l] :
            l \in UNION {[1..n -> {IngredientList[1], IngredientList[2]}] :
                            n \in 0..MaxLinks}}

\* Recipe.retrieve_ingredients(target) on the object r.  built: how many of
\* the Item(...) constructions of line 286 succeed before one raises.
RetrieveIngredients(r, target, page, built) ==
    IF target.type # "str" \/ page.fetch # "ok"
    THEN \* line 274: requests rejects a non-URL; line 276: None has no find
         [rec |-> r, outcome |-> "RequestException"]
    ELSE IF ~page.table
    THEN [rec |-> r, outcome |-> "ok"]
    ELSE IF page.totalrows = 1
    THEN \* lines 285-286: ingredients grows, ingredientQuantities does not
         [rec |-> [r EXCEPT !.ingredients =
                      @ \o [j \in 1..built |-> PyIngredient(page.links[j])]],
          outcome |-> IF built = Len(page.links) THEN "ok"
                      ELSE "RequestException"]
    ELSE IF page.totalrows > 1
    THEN \* line 290: table_rows[0][1] reads attribute 1 of a tag
         [rec |-> r, outcome |-> "KeyError"]
    ELSE [rec |-> r, outcome |-> "ok"]

\* CalamityRecipe.retrieve_ingredients(target) on the object r: line 321
\* reads attribute 0 of a row tag and raises before any append.
CalamityRetrieveIngredients(r, target, page, built) ==
    IF target.type # "str" \/ page.fetch # "ok"
    THEN [rec |-> r, outcome |-> "RequestException"]
    ELSE IF ~page.table
    THEN [rec |-> r, outcome |-> "ok"]
    ELSE [rec |-> r, outcome |-> "KeyError"]

\* self.retrieve_ingredients, dispatched on the object's class.
Retrieve(r, target, page, built) ==
    IF r.cls = "CalamityRecipe"
    THEN CalamityRetrieveIngredients(r, target, page, built)
    ELSE RetrieveIngredients(r, target, page, built)

\* The ingredients / ingredient_quantities arguments a caller passes: the
\* quantity of each ingredient, or nothing.
ListArgs ==
    {[ingredients |-> <<>>, quantities |-> <<>>],
     [ingredients |-> <<PyIngredient(IngredientList[1])>>,
      quantities |-> <<2>>]}

\* Recipe.__init__ / CalamityRecipe.__init__.
RecipeInit(cls, item, station, lists, initial, page, built) ==
    LET r0 == [cls |-> cls, item |-> item, crafting_station |-> station,
               ingredients |-> lists.ingredients,
               ingredientQuantities |-> lists.quantities,
               url |-> "https://terraria.wiki.gg"]
        got == IF initial THEN Retrieve(r0, item, page, built)
               ELSE [rec |-> r0, outcome |-> "ok"]
    IN  [rec |-> IF got.outcome # "ok" THEN NoRecipe
                 ELSE IF cls = "CalamityRecipe"
                      THEN [got.rec EXCEPT !.url = "https://calamitymod.wiki.gg"]
                 ELSE got.rec,
         outcome |-> got.outcome]

\* rec = Recipe(...): the name is bound only if the constructor returns.
NewRecipe(cls, item, station, lists, initial, page, built) ==
    LET c == RecipeInit(cls, item, station, lists, initial, page, built)
    IN  /\ built \in 0..Len(page.links)
        /\ rec' = IF c.outcome = "ok" THEN c.rec ELSE rec
        /\ last' = [op |-> "Recipe", arg |-> <<>>,
                    outcome |-> c.outcome, result |-> <<>>]
        /\ UNCHANGED <<items, recipes, edges, heap, aside>>

\* rec.retrieve_ingredients(target)
CallRetrieve(target, page, built) ==
    LET c == Retrieve(rec, target, page, built)
    IN  /\ rec.cls # "none"
        /\ built \in 0..Len(page.links)
        /\ Len(rec.ingredients) + Len(page.links) <= MaxIngredients
        /\ rec' = c.rec
        /\ last' = [op |-> "retrieve_ingredients", arg |-> <<>>,
                    outcome |-> c.outcome, result |-> <<>>]
        /\ UNCHANGED <<items, recipes, edges, heap, aside>>

\* ------------------------------------------------------ concurrent writers

\* The writers that run add_item on the one store at the same time.
Writers == {1, 2}

\* A writer that is not inside add_item.  found: what the Cursor of its last
\* lookup held; outcome: how its last call ended.
NoWriters ==
    [w \in Writers |->
        [pc |-> "idle", o |-> 0, found |-> FALSE, outcome |-> "none"]]

\* Lines 97-102 run by writer w on the Item object o: the recipes are replaced
\* by their dicts, the query is sent, and the Cursor that comes back is not
\* None, so the writer goes on to the insert.
AddItemLookup(w, o) ==
    LET rs == heap[o].recipes
        dicts == [i \in DOMAIN rs |-> [rs[i] EXCEPT !.kind = "dict"]]
    IN  /\ writers[w].pc = "idle"
        /\ IF \E i \in DOMAIN rs : rs[i].kind = "dict"
           THEN /\ writers' = [writers EXCEPT ![w] =
                                 [pc |-> "idle", o |-> o, found |-> FALSE,
                                  outcome |-> "AttributeError"]]
                /\ last' = [op |-> "add_item", arg |-> <<o>>,
                            outcome |-> "AttributeError", result |-> <<>>]
                /\ heap' = heap
           ELSE /\ writers' = [writers EXCEPT ![w] =
                                 [pc |-> "insert", o |-> o,
                                  found |-> NameIndexed(items, heap[o].name),
                                  outcome |-> "none"]]
                /\ last' = last
                /\ heap' = [heap EXCEPT ![o].recipes = dicts]
        /\ UNCHANGED <<items, recipes, edges, rec, frames, expansions>>

\* Line 107 run by writer w: one insert, which the server checks against the
\* unique index and applies as one operation.
AddItemInsert(w) ==
    LET ins == Insert(items, heap[writers[w].o])
    IN  /\ writers[w].pc = "insert"
        /\ items' = ins.items
        /\ writers' = [writers EXCEPT ![w].pc = "idle",
                                      ![w].outcome = ins.outcome]
        /\ last' = [op |-> "add_item", arg |-> <<writers[w].o>>,
                    outcome |-> ins.outcome, result |-> <<>>]
        /\ UNCHANGED <<recipes, edges, heap, rec, frames, expansions>>

\* ------------------------------------------------ Item(...) and Recipe(...)

\* Item.__init__ runs per item name since the outermost constructor call.
NoExpansions == [n \in Names |-> 0]

\* What a request for a URL ends in: requests.get raises, soupify returns None
\* (status other than 200), or the parsed page comes back.
Fetches == {"raises", "none", "soup"}

\* row.find_all('td'): a list of tags.
PyCells == [type |-> "list", id |-> 0, s |-> ""]

\* The titles of the links of an ingredients cell.
LinkLists == UNION {[1..n -> Names] : n \in 0..MaxLinks}

\* Item(name, wikiLink) entered: retrieve_image_link is next.
ItemFrame(name) ==
    [fn |-> "Item", cls |-> "Item",
     target |-> PyStr(Root("Vanilla") \o "/wiki/" \o name),
     pc |-> "image", rows |-> 0, links |-> <<>>]

\* cls(target) entered with initial = True: retrieve_ingredients(target) is
\* next.
RecipeFrame(cls, target) ==
    [fn |-> "Recipe", cls |-> cls, target |-> target,
     pc |-> "retrieve", rows |-> 0, links |-> <<>>]

\* The running call and the calls waiting for it.
Top == frames[Len(frames)]
Callers == SubSeq(frames, 1, Len(frames) - 1)

\* How the outermost constructor call ends.
Ended(outcome) ==
    [op |-> frames[1].fn, arg |-> <<frames[1].target>>,
     outcome |-> outcome, result |-> <<>>]

\* No caller catches: an exception ends every constructor on the stack.
Raise(exc) ==
    /\ frames' = <<>>
    /\ last' = Ended(exc)
    /\ UNCHANGED expansions

\* The running constructor returns to its caller.
Return ==
    /\ frames' = Callers
    /\ last' = IF Len(frames) = 1 THEN Ended("ok") ELSE last
    /\ UNCHANGED expansions

\* The running constructor goes on to its next statement.
Goto(pc, rows, links) ==
    /\ frames' = [frames EXCEPT ![Len(frames)] =
                    [@ EXCEPT !.pc = pc, !.rows = rows, !.links = links]]
    /\ UNCHANGED <<last, expansions>>

\* item = Item(name, link) called by the program.
NewItem(name) ==
    /\ frames = <<>>
    /\ frames' = <<ItemFrame(name)>>
    /\ expansions' = [n \in Names |-> IF n = name THEN 1 ELSE 0]
    /\ UNCHANGED <<items, recipes, edges, heap, rec, last, writers>>

\* cls(link) called by the program with the item's page URL.
NewRecipeFor(cls, name) ==
    /\ frames = <<>>
    /\ frames' = <<RecipeFrame(cls, PyStr(Root("Vanilla") \o "/wiki/" \o name))>>
    /\ expansions' = NoExpansions
    /\ UNCHANGED <<items, recipes, edges, heap, rec, last, writers>>

\* Item.__init__ line 64: retrieve_image_link.  A missing image only prints.
RetrieveImageLink(fetch) ==
    /\ frames # <<>>
    /\ Top.fn = "Item"
    /\ Top.pc = "image"
    /\ IF fetch = "raises" THEN Raise("ConnectionError")
       ELSE IF fetch = "none" THEN Raise("AttributeError")
       ELSE Goto("recipes", 0, <<>>)
    /\ UNCHANGED <<items, recipes, edges, heap, rec, writers>>

\* Item.retrieve_recipes lines 73-81: the page's 'background-1' table and its
\* n rows.
RetrieveRecipes(fetch, table, n) ==
    /\ frames # <<>>
    /\ Top.fn = "Item"
    /\ Top.pc = "recipes"
    /\ IF fetch = "raises" THEN Raise("ConnectionError")
       ELSE IF fetch = "none" THEN Raise("AttributeError")
       ELSE IF ~table THEN Goto("obtained", 0, <<>>)
       ELSE Goto("rows", n, <<>>)
    /\ UNCHANGED <<items, recipes, edges, heap, rec, writers>>

\* The loop of lines 83-90 calling Recipe with the page URL in place of the
\* row's cells.
RecipeRowByLink ==
    /\ frames # <<>>
    /\ Top.fn = "Item"
    /\ Top.pc = "rows"
    /\ IF Top.rows = 0 THEN Goto("obtained", 0, <<>>)
       ELSE /\ Len(frames) < MaxDepth
            /\ frames' = Append([frames EXCEPT ![Len(frames)].rows = @ - 1],
                                RecipeFrame("Recipe", Top.target))
            /\ UNCHANGED <<last, expansions>>
    /\ UNCHANGED <<items, recipes, edges, heap, rec, writers>>

\* Item.retrieve_recipes lines 83-90: one pass of the loop over the rows,
\* calling Recipe(cells), or the loop's end.
RecipeRow ==
    /\ frames # <<>>
    /\ Top.fn = "Item"
    /\ Top.pc = "rows"
    /\ IF Top.rows = 0 THEN Goto("obtained", 0, <<>>)
       ELSE /\ Len(frames) < MaxDepth
            /\ frames' = Append([frames EXCEPT ![Len(frames)].rows = @ - 1],
                                RecipeFrame("Recipe", PyCells))
            /\ UNCHANGED <<last, expansions>>
    /\ UNCHANGED <<items, recipes, edges, heap, rec, writers>>

\* Recipe.__init__ line 247 into retrieve_ingredients, lines 274-290 (lines
\* 312-321 for a CalamityRecipe): requests refuses a target that is not a URL
\* (MissingSchema or InvalidSchema); n is the table's data-totalrows.
RecipeRetrieve(fetch, table, n, links) ==
    /\ frames # <<>>
    /\ Top.fn = "Recipe"
    /\ Top.pc = "retrieve"
    /\ IF Top.target.type # "str" THEN Raise("MissingSchema")
       ELSE IF fetch = "raises" THEN Raise("ConnectionError")
       ELSE IF fetch = "none" THEN Raise("AttributeError")
       ELSE IF ~table THEN Return
       ELSE IF Top.cls = "CalamityRecipe" THEN Raise("KeyError")
       ELSE IF n = 1 THEN Goto("links", 0, links)
       ELSE IF n > 1 THEN Raise("KeyError")
       ELSE Return
    /\ UNCHANGED <<items, recipes, edges, heap, rec, writers>>

\* Recipe.retrieve_ingredients lines 285-286: one pass of the loop over the
\* links, calling Item(title, url), or the loop's end.
RecipeLink ==
    /\ frames # <<>>
    /\ Top.fn = "Recipe"
    /\ Top.pc = "links"
    /\ IF Top.links = <<>> THEN Return
       ELSE /\ Len(frames) < MaxDepth
            /\ frames' = Append([frames EXCEPT ![Len(frames)].links = Tail(@)],
                                ItemFrame(Head(Top.links)))
            /\ expansions' = [expansions EXCEPT ![Head(Top.links)] = @ + 1]
            /\ UNCHANGED last
    /\ UNCHANGED <<items, recipes, edges, heap, rec, writers>>

\* Item.__init__ line 66: retrieve_obtained_from.  A status other than 200
\* only prints; raised: whether one of the loops over the drop table's rows
\* meets a row it cannot read.
RetrieveObtainedFrom(fetch, raised) ==
    /\ frames # <<>>
    /\ Top.fn = "Item"
    /\ Top.pc = "obtained"
    /\ IF fetch = "raises" THEN Raise("ConnectionError")
       ELSE IF fetch = "soup" /\ raised THEN Raise("AttributeError")
       ELSE Return
    /\ UNCHANGED <<items, recipes, edges, heap, rec, writers>>

\* ------------------------------------------ Scraper.find_crafting_stations

\* A title is the sequence of its words; the string is the words joined.
RECURSIVE Join(_, _)
Join(words, sep) ==
    IF words = <<>> THEN ""
    ELSE IF Len(words) = 1 THEN words[1]
    ELSE words[1] \o sep \o Join(Tail(words), sep)

\* link['title']
Title(words) == Join(words, " ")

\* space_to_underscore(title), re.sub(r'\s', '_', title)
SpaceToUnderscore(words) == Join(words, "_")

\* 'chair' in title.lower(), for the words of the titles below.
HasChair(words) == \E i \in DOMAIN words : words[i] \in {"Chair", "chair"}

\* The tests of lines 407-422 in their order: the titles of links[0] and
\* links[3], and what is appended when both match.
SpecialCases ==
    <<[first |-> "Demon Altar", fourth |-> "Crimson Altar",
       names |-> <<"Altars">>],
      [first |-> "Furnace", fourth |-> "Hellforge",
       names |-> <<"Furnace", "Hellforge">>],
      [first |-> "Placed Bottle", fourth |-> "Alchemy Table",
       names |-> <<"Alchemy_Table">>],
      [first |-> "Cooking Pot", fourth |-> "Cauldron",
       names |-> <<"Cooking_Pot">>],
      [first |-> "Iron Anvil", fourth |-> "Lead Anvil",
       names |-> <<"Pre-Hardmode_Anvils">>]>>

RECURSIVE TwoImages(_, _)
\* Lines 407-428 from the k-th test on.  links[3] is read only when the test
\* on links[0] is true.
TwoImages(links, k) ==
    IF links = <<>>
    THEN [outcome |-> "IndexError", names |-> <<>>]
    ELSE IF k <= Len(SpecialCases)
    THEN IF Title(links[1]) # SpecialCases[k].first
         THEN TwoImages(links, k + 1)
         ELSE IF Len(links) < 4
         THEN [outcome |-> "IndexError", names |-> <<>>]
         ELSE IF Title(links[4]) = SpecialCases[k].fourth
         THEN [outcome |-> "ok", names |-> SpecialCases[k].names]
         ELSE TwoImages(links, k + 1)
    ELSE IF HasChair(links[1])
    THEN [outcome |-> "ok", names |-> <<SpaceToUnderscore(links[1])>>]
    ELSE IF Len(links[1]) < 2
    THEN \* line 427: split(' ')[1] of a title without a space
         [outcome |-> "IndexError", names |-> <<>>]
    ELSE [outcome |-> "ok", names |-> <<"Hardmode_" \o links[1][2]>>]

\* Lines 389-430 for one row: what is appended to crafting_stations.
StationsOfCell(cell) ==
    IF cell.imgs = 0
    THEN [outcome |-> "ok",
          names |-> IF cell.text = "By Hand" THEN <<"By_Hand">> ELSE <<>>]
    ELSE IF cell.imgs = 1
    THEN IF cell.links = <<>>
         THEN \* line 399: cell.find('a') is None
              [outcome |-> "TypeError", names |-> <<>>]
         ELSE [outcome |-> "ok",
               names |-> <<SpaceToUnderscore(cell.links[1])>>]
    ELSE IF cell.imgs = 2
    THEN TwoImages(cell.links, 1)
    ELSE [outcome |-> "ok", names |-> <<>>]

RECURSIVE StationsOfRows(_, _)
\* The loop of line 380 over the rows, crafting_stations being acc.
StationsOfRows(rows, acc) ==
    IF rows = <<>> THEN [outcome |-> "ok", result |-> acc]
    ELSE LET c == StationsOfCell(Head(rows))
         IN  IF c.outcome # "ok"
             THEN [outcome |-> c.outcome, result |-> <<>>]
             ELSE StationsOfRows(Tail(rows), acc \o c.names)

\* find_crafting_stations(url) on a page with one table.  status: the status
\* of the scraper's recipes_page; moon: the table mentions 'Moon phase'.
FindCraftingStationsCall(page) ==
    IF page.status # 200 \/ page.moon
    THEN [outcome |-> "ok", result |-> <<>>]
    ELSE StationsOfRows(page.rows, <<>>)

\* The titles of the first and of the fourth link of a cell.
FirstTitles ==
    {<<"Demon", "Altar">>, <<"Furnace">>, <<"Placed", "Bottle">>,
     <<"Cooking", "Pot">>, <<"Iron", "Anvil">>, <<"Wooden", "Chair">>,
     <<"Mythril", "Anvil">>, <<"Loom">>}
FourthTitles ==
    {<<"Crimson", "Altar">>, <<"Hellforge">>, <<"Alchemy", "Table">>,
     <<"Cauldron">>, <<"Lead", "Anvil">>, <<"Orichalcum", "Anvil">>}

\* The links of a cell with two images: an image link and a text link per
\* station, or fewer.
TwoImageLinks ==
    {SubSeq(<<a, a, b, b>>, 1, n) :
        a \in FirstTitles, b \in FourthTitles, n \in 0..CellLinks}

Cells ==
    {[imgs |-> 0, text |-> t, links |-> <<>>] : t \in {"By Hand", ""}}
    \cup {[imgs |-> 1, text |-> "", links |-> l] :
            l \in {<<>>, <<<<"Loom">>>>, <<<<"Iron", "Anvil">>>>}}
    \cup {[imgs |-> 2, text |-> "", links |-> l] : l \in TwoImageLinks}
    \cup {[imgs |-> 3, text |-> "", links |-> <<>>]}

StationPages ==
    {[status |-> st, moon |-> m, rows |-> rows] :
        st \in {200, 404}, m \in BOOLEAN,
        rows \in UNION {[1..n -> Cells] : n \in 0..MaxCells}}

\* crafting_stations = scraper.find_crafting_stations(url), on the page that
\* was handed in.
FindCraftingStations ==
    LET c == FindCraftingStationsCall(last.arg[1])
    IN  /\ last.op = "page"
        /\ last' = [op |-> "find_crafting_stations", arg |-> last.arg,
                    outcome |-> c.outcome, result |-> c.result]
        /\ UNCHANGED <<items, recipes, edges, heap, rec, aside>>

\* ------------------------------------------------------------ specification

\* The arguments add_edge is called with.
EdgeArgs == RecipeArgs \cup {PyList}

Init ==
    /\ items = <<>>
    /\ recipes = <<>>
    /\ edges = <<>>
    /\ heap \in Heaps
    /\ rec = NoRecipe
    /\ last = [op |-> "init", arg |-> <<>>, outcome |-> "ok", result |-> <<>>]
    /\ writers = NoWriters
    /\ frames = <<>>
    /\ expansions = NoExpansions

Next ==
    \/ \E o \in ItemObjs : AddItem(o)
    \/ \E batch \in Batches : AddItems(batch)
    \/ \E r \in RecipeArgs, drv \in DriverModes : AddRecipe(r, drv)
    \/ \E o \in ItemObjs, drv \in DriverModes : AddRecipes(o, drv)
    \/ \E o \in ItemObjs, r \in EdgeArgs, drv \in DriverModes : AddEdge(o, r, drv)
    \/ \E name \in QueryNames, fetched \in BOOLEAN : GetItem(name, fetched)
    \/ \E name \in QueryNames : GetIngredients(name)
    \/ \E name \in QueryNames : GetRecipes(name)

\* The database manager on an empty database.
Spec == Init /\ [][Next]_vars

\* What a caller passes as a recipe's item: the page URL or an Item object.
ItemArgs == {PyStr("https://terraria.wiki.gg/wiki/Wood Sword"), PyItem(1)}

InitRecipe ==
    /\ items = <<>>
    /\ recipes = <<>>
    /\ edges = <<>>
    /\ heap = [o \in ItemObjs |-> ItemObject("Wood Sword", "Vanilla", <<>>)]
    /\ rec = NoRecipe
    /\ last = [op |-> "init", arg |-> <<>>, outcome |-> "ok", result |-> <<>>]
    /\ writers = NoWriters
    /\ frames = <<>>
    /\ expansions = NoExpansions

NextRecipe ==
    \/ \E cls \in {"Recipe", "CalamityRecipe"}, item \in ItemArgs,
          station \in {"", "Work_Bench"}, lists \in ListArgs,
          initial \in BOOLEAN, page \in Pages, built \in 0..MaxLinks :
            NewRecipe(cls, item, station, lists, initial, page, built)
    \/ \E target \in ItemArgs, page \in Pages, built \in 0..MaxLinks :
            CallRetrieve(target, page, built)

\* The construction and refilling of one Recipe object.
SpecRecipe == InitRecipe /\ [][NextRecipe]_vars

InitRace ==
    /\ items = <<>>
    /\ recipes = <<>>
    /\ edges = <<>>
    /\ heap \in Heaps
    /\ rec = NoRecipe
    /\ last = [op |-> "init", arg |-> <<>>, outcome |-> "ok", result |-> <<>>]
    /\ writers = NoWriters
    /\ frames = <<>>
    /\ expansions = NoExpansions

NextRace ==
    \/ \E w \in Writers, o \in ItemObjs : AddItemLookup(w, o)
    \/ \E w \in Writers : AddItemInsert(w)

\* Two writers whose add_item calls interleave between lookup and insert.
SpecRace == InitRace /\ [][NextRace]_vars

InitItem ==
    /\ items = <<>>
    /\ recipes = <<>>
    /\ edges = <<>>
    /\ heap = [o \in ItemObjs |-> ItemObject("Wood Sword", "Vanilla", <<>>)]
    /\ rec = NoRecipe
    /\ last = [op |-> "init", arg |-> <<>>, outcome |-> "ok", result |-> <<>>]
    /\ writers = NoWriters
    /\ frames = <<>>
    /\ expansions = NoExpansions

\* The statements a constructor call that was entered goes on with.
Running ==
    \/ \E fetch \in Fetches : RetrieveImageLink(fetch)
    \/ \E fetch \in Fetches, table \in BOOLEAN, n \in 0..MaxRows :
          RetrieveRecipes(fetch, table, n)
    \/ RecipeRow
    \/ \E fetch \in Fetches, table \in BOOLEAN, n \in 0..MaxRows,
          links \in LinkLists : RecipeRetrieve(fetch, table, n, links)
    \/ RecipeLink
    \/ \E fetch \in Fetches, raised \in BOOLEAN :
          RetrieveObtainedFrom(fetch, raised)

NextItem ==
    \/ \E name \in Names : NewItem(name)
    \/ \E cls \in {"Recipe", "CalamityRecipe"}, name \in Names :
          NewRecipeFor(cls, name)
    \/ Running

\* The construction of Items and Recipes from wiki pages.  A constructor that
\* was entered keeps executing: every request is answered or raises.
SpecItem == InitItem /\ [][NextItem]_vars /\ WF_vars(Running)

InitStations ==
    /\ items = <<>>
    /\ recipes = <<>>
    /\ edges = <<>>
    /\ heap = [o \in ItemObjs |-> ItemObject("Wood Sword", "Vanilla", <<>>)]
    /\ rec = NoRecipe
    /\ last \in {[op |-> "page", arg |-> <<page>>, outcome |-> "ok",
                 result |-> <<>>] : page \in StationPages}
    /\ writers = NoWriters
    /\ frames = <<>>
    /\ expansions = NoExpansions

NextStations == FindCraftingStations

\* The scraper reading one crafting stations page, for every such page.
SpecStations == InitStations /\ [][NextStations]_vars

\* ------------------------------------------------------------------ claims

\* C1: running add_items on the same batch a second time, right after a run
\* that completed, completes normally and leaves items, recipes and edges
\* exactly as the first run left them.
C1_Idempotent ==
    [][(/\ last.op = "add_items"
        /\ last.outcome = "ok"
        /\ last'.op = "add_items"
        /\ last'.arg = last.arg)
       => (/\ last'.outcome = "ok"
           /\ items' = items
           /\ recipes' = recipes
           /\ edges' = edges)]_vars

\* C2: in every reachable state, whatever calls were made and however they
\* ended, no two item records share a name and no two recipe records share
\* (item, crafting_station).
C2_IdentityUnique ==
    /\ \A i, j \in DOMAIN items : items[i].name = items[j].name => i = j
    /\ \A i, j \in DOMAIN recipes :
          (/\ recipes[i].item = recipes[j].item
           /\ recipes[i].crafting_station = recipes[j].crafting_station)
          => i = j

\* C2 witness: an add_item call for a name that is already stored was refused.
C2_Witness ==
    /\ last.op = "add_item"
    /\ last.outcome = "DocumentInsertError"
    /\ NameIndexed(items, heap[last.arg[1]].name)

\* C3: add_item on an item whose name is already stored overwrites the
\* record's wikiLink, imageLink and obtainedFrom with the item's values and
\* keeps the record's key, so that exactly one record of that name exists and
\* carries the new values.
C3_UpsertOverwrites ==
    [][(last'.op = "add_item" /\ NameIndexed(items, heap[last'.arg[1]].name))
       => LET it == heap[last'.arg[1]]
              hit == {k \in DOMAIN items' : items'[k].name = it.name}
          IN  /\ Cardinality(hit) = 1
              /\ \A k \in hit :
                    /\ items'[k].wikiLink = it.wikiLink
                    /\ items'[k].imageLink = it.imageLink
                    /\ items'[k].obtainedFrom = it.obtainedFrom
                    /\ k \in DOMAIN items
                    /\ items[k].key = items'[k].key]_vars

\* C4: after add_recipe(recipe) returns, the recipes collection holds exactly
\* one record for (recipe.item, recipe.crafting_station), with the
\* ingredients, quantities and url of that call.
C4_UpsertRecipe ==
    (last.op = "add_recipe" /\ last.outcome = "ok")
    => LET r == last.arg[1]
       IN  Cardinality({k \in DOMAIN recipes :
                /\ recipes[k].item = heap[r.item.id].name
                /\ recipes[k].crafting_station = r.crafting_station
                /\ Len(recipes[k].ingredients) = Len(r.ingredients)
                /\ recipes[k].ingredientQuantities = r.ingredientQuantities
                /\ recipes[k].url = r.url}) = 1

\* The recipes the store holds: the records of the recipes collection and the
\* recipes embedded in the item documents.
PersistedRecipes ==
    {recipes[k] : k \in DOMAIN recipes}
    \cup UNION {{items[k].recipes[i] : i \in DOMAIN items[k].recipes} :
                    k \in DOMAIN items}

\* C5: once add_edge has returned, every persisted recipe has exactly one
\* recipe-to-output-item edge and exactly one ingredient-to-recipe edge per
\* ingredient, carrying that ingredient's quantity.
C5_EdgeConsistency ==
    (last.op = "add_edge" /\ last.outcome = "ok")
    => /\ Cardinality({k \in DOMAIN edges :
              /\ edges[k].from = ItemHandle(heap[last.arg[1]].name)
              /\ edges[k].to =
                    RecipeHandle(heap[last.arg[2].item.id].name)}) = 1
       /\ \A r \in PersistedRecipes :
             /\ Cardinality({k \in DOMAIN edges :
                    edges[k].from = RecipeHandle(r.item)}) = 1
             /\ \A j \in DOMAIN r.ingredients :
                   Cardinality({k \in DOMAIN edges :
                       /\ edges[k].from = ItemHandle(r.ingredients[j])
                       /\ edges[k].to = RecipeHandle(r.item)
                       /\ edges[k].quantity = r.ingredientQuantities[j]}) = 1

C7_MissIsValue ==
    last.op = "get_item"
    => IF NameIndexed(items, last.arg[1])
       THEN last.outcome = "ok" => last.result[1].name = last.arg[1]
       ELSE last.outcome = "ok" /\ last.result = <<>>

RECURSIVE FlatPairs(_)
\* The (ingredient, quantity) pairs of a list of recipes, recipe by recipe
\* and ingredient by ingredient.
FlatPairs(rs) ==
    IF rs = <<>> THEN <<>>
    ELSE [j \in DOMAIN Head(rs).ingredients |->
            [item |-> Head(rs).ingredients[j],
             quantity |-> Head(rs).ingredientQuantities[j]]]
         \o FlatPairs(Tail(rs))

\* C8: get_ingredients(name) returns one flat sequence of (ingredient,
\* quantity) pairs over all stored recipes of the named item, in recipe order
\* and then ingredient order.
C8_FlatIngredients ==
    last.op = "get_ingredients"
    => /\ last.outcome = "ok"
       /\ \A k \in DOMAIN items :
             items[k].name = last.arg[1]
             => last.result = FlatPairs(items[k].recipes)

\* C9: get_recipes(name) does not raise; for a stored item it returns exactly
\* the recipes of that item's record, in their stored order, which is the
\* empty sequence when the item has none.
C9_GetRecipes ==
    last.op = "get_recipes"
    => /\ last.outcome = "ok"
       /\ \A k \in DOMAIN items :
             items[k].name = last.arg[1] => last.result = items[k].recipes

\* C9 witness: get_recipes has returned the recipes of an item stored with
\* more than one recipe.
C9_Witness ==
    /\ last.op = "get_recipes"
    /\ last.outcome = "ok"
    /\ Len(last.result) >= 2
    /\ \E k \in DOMAIN items :
          items[k].name = last.arg[1] /\ Len(items[k].recipes) >= 2

\* C10: for the Recipe or CalamityRecipe object, once its constructor has
\* returned and after every call of retrieve_ingredients, ingredients and
\* ingredientQuantities have the same length.
C10_ListLengths ==
    rec.cls # "none" => Len(rec.ingredients) = Len(rec.ingredientQuantities)

\* C11: no recipe held by the store lists its own output item among its
\* ingredients, and add_recipe on a recipe whose output item's name is among
\* its ingredients' names is rejected: it does not return normally.
C11_NoSelfLoop ==
    /\ \A k \in DOMAIN items : \A i \in DOMAIN items[k].recipes :
          \A j \in DOMAIN items[k].recipes[i].ingredients :
              items[k].recipes[i].ingredients[j] # items[k].name
    /\ \A k \in DOMAIN recipes : \A j \in DOMAIN recipes[k].ingredients :
          recipes[k].ingredients[j] # recipes[k].item
    /\ (/\ last.op = "add_recipe"
        /\ last.arg[1].item.type = "Item"
        /\ \E j \in DOMAIN last.arg[1].ingredients :
              last.arg[1].ingredients[j].s = heap[last.arg[1].item.id].name)
       => last.outcome # "ok"

\* add_item(o) alone would store hp[o]: its recipes are Recipe objects and
\* its attributes can be encoded.
Storable(hp, o) ==
    /\ \A i \in DOMAIN hp[o].recipes : hp[o].recipes[i].kind = "Recipe"
    /\ Serializable(hp[o])

\* C12: add_items keeps every record the store held, and commits every record
\* of the batch that add_item alone would have committed, whatever happens to
\* the records before it in the batch.
C12_SkipAndContinue ==
    [][last'.op = "add_items"
       => /\ Len(items') >= Len(items)
          /\ SubSeq(items', 1, Len(items)) = items
          /\ \A i \in DOMAIN last'.arg :
                AddItemCall(items, heap, last'.arg[i]).outcome = "ok"
                => NameIndexed(items', heap[last'.arg[i]].name)]_vars

\* C13: add_item on a storable item whose name is stored only under the other
\* source returns normally and adds a record for the item's source beside the
\* record of the other source, which is kept as it was.
C13_IdentityPerSource ==
    [][(/\ last'.op = "add_item"
        /\ Storable(heap, last'.arg[1])
        /\ \A k \in DOMAIN items :
              items[k].name = heap[last'.arg[1]].name
              => items[k].source # heap[last'.arg[1]].source
        /\ NameIndexed(items, heap[last'.arg[1]].name))
       => /\ last'.outcome = "ok"
          /\ Len(items') = Len(items) + 1
          /\ SubSeq(items', 1, Len(items)) = items
          /\ items'[Len(items')].name = heap[last'.arg[1]].name
          /\ items'[Len(items')].source = heap[last'.arg[1]].source]_vars

\* C16: add_item and add_items leave every attribute of every Item object as
\* it was before the call; in particular each recipes list still holds the
\* same Recipe objects.
C16_ArgumentUnchanged ==
    [][last'.op \in {"add_item", "add_items"} => heap' = heap]_vars

\* The two writers have each ended an add_item call for the same name, each
\* lookup found no record of it, and each insert reached the index.
Raced(w1, w2) ==
    /\ w1 # w2
    /\ writers[w1].pc = "idle"
    /\ writers[w2].pc = "idle"
    /\ writers[w1].outcome \in {"ok", "DocumentInsertError"}
    /\ writers[w2].outcome \in {"ok", "DocumentInsertError"}
    /\ ~writers[w1].found
    /\ ~writers[w2].found
    /\ heap[writers[w1].o].name = heap[writers[w2].o].name

\* C14 as stated: when two writers run add_item for the same name and both
\* lookups come before either insert, the items collection ends up holding
\* two records with that name.
C14_RaceDuplicates ==
    \A w1, w2 \in Writers :
        Raced(w1, w2)
        => Cardinality({k \in DOMAIN items :
                items[k].name = heap[writers[w1].o].name}) = 2

\* C14, amended: lookup and insert are separate steps, but under every
\* interleaving of two writers no two item records share a name; of two
\* writers that raced on a name, one insert is applied and the other one is
\* refused with DocumentInsertError.
C14_NoDuplicateUnderRace ==
    /\ \A i, j \in DOMAIN items : items[i].name = items[j].name => i = j
    /\ \A w1, w2 \in Writers :
          Raced(w1, w2)
          => /\ {writers[w1].outcome, writers[w2].outcome}
                   = {"ok", "DocumentInsertError"}
             /\ Cardinality({k \in DOMAIN items :
                    items[k].name = heap[writers[w1].o].name}) = 1

\* C14 witness: two writers raced on one name, both lookups found nothing,
\* and both inserts have been issued.
C14_Witness ==
    \E w1, w2 \in Writers :
        /\ Raced(w1, w2)
        /\ writers[w1].outcome = "ok"
        /\ writers[w2].outcome = "DocumentInsertError"

\* A row whose cell has two images and links that match none of the special
\* cases of lines 407-425.
Unmatched(cell) ==
    /\ cell.imgs = 2
    /\ cell.links # <<>>
    /\ ~HasChair(cell.links[1])
    /\ \A k \in DOMAIN SpecialCases :
          ~(/\ Title(cell.links[1]) = SpecialCases[k].first
            /\ Len(cell.links) >= 4
            /\ Title(cell.links[4]) = SpecialCases[k].fourth)

\* C15: on a page that is read and whose rows are all such cells,
\* find_crafting_stations returns normally with one name per row, and for a
\* row whose first title is a single word or whose cell has fewer than four
\* links that name is the first link's title, as it is or underscored.
C15_FallbackNeverRaises ==
    (/\ last.op = "find_crafting_stations"
     /\ last.arg[1].status = 200
     /\ ~last.arg[1].moon
     /\ \A i \in DOMAIN last.arg[1].rows : Unmatched(last.arg[1].rows[i]))
    => /\ last.outcome = "ok"
       /\ Len(last.result) = Len(last.arg[1].rows)
       /\ \A i \in DOMAIN last.arg[1].rows :
             LET links == last.arg[1].rows[i].links
             IN  (Len(links[1]) = 1 \/ Len(links) < 4)
                 => last.result[i] \in {Title(links[1]),
                                        SpaceToUnderscore(links[1])}

====
